---- MODULE Spec2Model ----
(***************************************************************************)
(* Model of cmd/run.go: runRun, the attestation run pipeline.              *)
(* One invocation of runRun is followed statement by statement; the calls  *)
(* it makes into collaborators (loadSigners, loadOutfile,                  *)
(* attestation.Attestors, the option setters, witness.Run, json.Marshal,   *)
(* out.Write, archivista Store) return nondeterministically.               *)
(***************************************************************************)
EXTENDS Integers, Sequences, FiniteSets, TLC

(* ---- bounds of the model ---- *)
MaxSigners == 2
MaxLoadErrs == 2
MaxPlug == 2
MaxSetters == 2
MaxTs == 1

(* ---- attestor types ---- *)
ProductType == "product"
MaterialType == "material"
CommandRunType == "command-run"

\* names the attestor registry resolves, and all names a configuration may ask for
Registry == {"git", "environment"}
PlugNames == Registry \cup {"bogus"}

\* attestor types the configuration may bind option setters to
SetterTypes == {ProductType, "git"}

Nil == 0

RECURSIVE SeqsUpTo(_, _)
SeqsUpTo(S, n) ==
  IF n = 0 THEN {<<>>}
  ELSE LET shorter == SeqsUpTo(S, n - 1)
       IN shorter \cup {Append(s, x) : s \in {t \in shorter : Len(t) = n - 1}, x \in S}

\* a configuration names each pluggable attestor at most once
Distinct(s) == \A a, b \in 1..Len(s) : a # b => s[a] # s[b]
AttestationLists == {s \in SeqsUpTo(PlugNames, MaxPlug) : Distinct(s)}

\* the invocation arguments: no command, or a command
ArgLists == {<<>>, <<"make">>}

\* options.RunOptions as runRun reads it, together with args
RunOptions ==
  [ Attestations : AttestationLists,
    AttestorOptSetters : [SetterTypes -> 0..MaxSetters],
    TimestampServers : 0..MaxTs,
    Tracing : BOOLEAN,
    ArchivistaEnable : BOOLEAN,
    args : ArgLists ]

VARIABLES
  pc,          \* position in runRun
  ro,          \* the options and arguments of this invocation
  signers,     \* signers returned by loadSigners
  errors,      \* load errors returned by loadSigners
  logged,      \* what log.Error has been given
  out,         \* the output destination: its state, the closes and writes made,
               \* and the bytes this invocation has put into it
  deferred,    \* whether defer out.Close() has been registered
  heap,        \* attestor instances, by reference
  attestors,   \* the attestors slice (references)
  idx,         \* range position in the attestors slice
  sidx,        \* position in the setters of the current attestor
  attestor,    \* the loop variable of the range
  setterRet,   \* per slice position, the instance the last setter returned
  setterCalls, \* the setter invocations: position, setter, argument, result
  runCalls,    \* the attestor slices witness.Run was invoked with
  result,      \* the envelope witness.Run returned
  signedBytes, \* the marshalled envelope
  stored,      \* the envelopes given to the archivista store
  ret,         \* what runRun returned
  trace        \* the collaborator calls made, in order

vars == <<pc, ro, signers, errors, logged, out, deferred, heap, attestors, idx,
          sidx, attestor, setterRet, setterCalls, runCalls, result, signedBytes, stored, ret,
          trace>>

NoEnvelope == [claims |-> <<>>, signer |-> 0, timestamps |-> 0, nonce |-> 0]
NoOut == [state |-> "unopened", closes |-> 0, writes |-> 0, content |-> <<>>]
NoRet == [kind |-> "running", about |-> ""]

Init ==
  /\ pc = "loadSigners"
  /\ ro \in {r \in RunOptions : r.args = <<>> => ~r.Tracing}
  /\ signers = <<>>
  /\ errors = <<>>
  /\ logged = <<>>
  /\ out = NoOut
  /\ deferred = FALSE
  /\ heap = <<>>
  /\ attestors = <<>>
  /\ idx = 0
  /\ sidx = 0
  /\ attestor = Nil
  /\ setterRet = <<>>
  /\ setterCalls = <<>>
  /\ runCalls = <<>>
  /\ result = NoEnvelope
  /\ signedBytes = <<>>
  /\ stored = <<>>
  /\ ret = NoRet
  /\ trace = <<>>

(* ---- returning from runRun: the deferred close runs, if registered ---- *)
CloseOut(o) == [o EXCEPT !.state = "closed", !.closes = @ + 1]

Err(kind, about) == [kind |-> kind, about |-> about]

\* a collaborator call and whether it returned without error
Call(op, ok) == [op |-> op, ok |-> ok]

\* the error out.Close() returns is discarded
Return(r, o, tr) ==
  /\ ret' = r
  /\ pc' = "done"
  /\ out' = IF deferred THEN CloseOut(o) ELSE o
  /\ trace' \in IF deferred THEN {Append(tr, Call("Close", ok)) : ok \in BOOLEAN}
                           ELSE {tr}

(* ---- lines 56-72: the signer resolver ---- *)
\* mutant: the output destination is opened before the signers are checked
LoadSignersOpensOut ==
  /\ pc = "loadSigners"
  /\ \E ns \in 0..MaxSigners, ne \in 0..MaxLoadErrs :
       /\ signers' = [k \in 1..ns |-> k]
       /\ errors' = [k \in 1..ne |-> k]
  /\ pc' = "checkSigners"
  /\ out' = [out EXCEPT !.state = "open", !.content = <<>>]
  /\ trace' = trace \o <<Call("loadOutfile", TRUE), Call("loadSigners", TRUE)>>
  /\ UNCHANGED <<ro, logged, deferred, heap, attestors, idx, sidx, attestor,
                 setterRet, setterCalls, runCalls, result, signedBytes, stored, ret>>

LoadSigners ==
  /\ pc = "loadSigners"
  /\ \E ns \in 0..MaxSigners, ne \in 0..MaxLoadErrs :
       /\ signers' = [k \in 1..ns |-> k]
       /\ errors' = [k \in 1..ne |-> k]
  /\ pc' = "checkSigners"
  /\ trace' = Append(trace, Call("loadSigners", TRUE))
  /\ UNCHANGED <<ro, logged, out, deferred, heap, attestors, idx, sidx, attestor,
                 setterRet, setterCalls, runCalls, result, signedBytes, stored, ret>>

HasLoadErrors == Len(errors) > 0
\* mutant: the signer count is compared off by one
TooManySignersOffByOne == Len(signers) > 2
TooManySigners == Len(signers) > 1
NoSigners == Len(signers) = 0

\* mutant: only the first load error is logged
FailLoadErrorsLogsFirst ==
  /\ pc = "checkSigners"
  /\ HasLoadErrors
  /\ logged' = Append(logged, Err("load", ToString(errors[1])))
  /\ Return(Err("SignerLoadError", ""), out, trace)
  /\ UNCHANGED <<ro, signers, errors, deferred, heap, attestors, idx, sidx,
                 attestor, setterRet, setterCalls, runCalls, result, signedBytes, stored>>

FailLoadErrors ==
  /\ pc = "checkSigners"
  /\ HasLoadErrors
  /\ logged' = logged \o [k \in 1..Len(errors) |-> Err("load", ToString(errors[k]))]
  /\ Return(Err("SignerLoadError", ""), out, trace)
  /\ UNCHANGED <<ro, signers, errors, deferred, heap, attestors, idx, sidx,
                 attestor, setterRet, setterCalls, runCalls, result, signedBytes, stored>>

FailTooManySigners ==
  /\ pc = "checkSigners"
  /\ ~HasLoadErrors
  /\ TooManySigners
  /\ logged' = Append(logged, Err("AmbiguousSignerError", ""))
  /\ Return(Err("AmbiguousSignerError", ""), out, trace)
  /\ UNCHANGED <<ro, signers, errors, deferred, heap, attestors, idx, sidx,
                 attestor, setterRet, setterCalls, runCalls, result, signedBytes, stored>>

FailNoSigners ==
  /\ pc = "checkSigners"
  /\ ~HasLoadErrors
  /\ ~TooManySigners
  /\ NoSigners
  /\ logged' = Append(logged, Err("NoSignerError", ""))
  /\ Return(Err("NoSignerError", ""), out, trace)
  /\ UNCHANGED <<ro, signers, errors, deferred, heap, attestors, idx, sidx,
                 attestor, setterRet, setterCalls, runCalls, result, signedBytes, stored>>

SignersOk == ~HasLoadErrors /\ ~TooManySigners /\ ~NoSigners

(* ---- lines 74-77: the output destination is opened ---- *)
OpenOut(o) == [o EXCEPT !.state = "open", !.content = <<>>]

LoadOutfileOk ==
  /\ pc = "checkSigners"
  /\ SignersOk
  /\ out' = OpenOut(out)
  /\ pc' = "buildAttestors"
  /\ trace' = Append(trace, Call("loadOutfile", TRUE))
  /\ UNCHANGED <<ro, signers, errors, logged, deferred, heap, attestors, idx, sidx,
                 attestor, setterRet, setterCalls, runCalls, result, signedBytes, stored, ret>>

LoadOutfileFail ==
  /\ pc = "checkSigners"
  /\ SignersOk
  /\ Return(Err("OpenError", ""), out, Append(trace, Call("loadOutfile", FALSE)))
  /\ UNCHANGED <<ro, signers, errors, logged, deferred, heap, attestors, idx, sidx,
                 attestor, setterRet, setterCalls, runCalls, result, signedBytes, stored>>

(* ---- lines 79-94: the attestor set builder ---- *)
NewAttestor(t, a, tr) == [type |-> t, opts |-> <<>>, args |-> a, tracing |-> tr]

\* mutant: the baseline attestors are constructed in the other order
BaselineAttestorsSwapped ==
  <<NewAttestor(MaterialType, <<>>, FALSE), NewAttestor(ProductType, <<>>, FALSE)>>

\* line 84
BaselineAttestors ==
  <<NewAttestor(ProductType, <<>>, FALSE), NewAttestor(MaterialType, <<>>, FALSE)>>

\* mutant: the tracing flag is not passed to the command-run attestor
CommandRunAttestorsNoTracing ==
  IF Len(ro.args) > 0
  THEN <<NewAttestor(CommandRunType, ro.args, FALSE)>>
  ELSE <<>>

\* lines 85-87
CommandRunAttestors ==
  IF Len(ro.args) > 0
  THEN <<NewAttestor(CommandRunType, ro.args, ro.Tracing)>>
  ELSE <<>>

\* line 89: attestation.Attestors resolves every name or fails on the first unknown one
Resolvable(names) == \A k \in 1..Len(names) : names[k] \in Registry
FirstUnknown(names) ==
  names[CHOOSE k \in 1..Len(names) :
          /\ names[k] \notin Registry
          /\ \A m \in 1..(k - 1) : names[m] \in Registry]
AddtlAttestors(names) == [k \in 1..Len(names) |-> NewAttestor(names[k], <<>>, FALSE)]

\* line 94
AppendAttestors(built, addtl) == built \o addtl

Refs(h) == [k \in 1..Len(h) |-> k]

BuildAttestorsOk ==
  /\ pc = "buildAttestors"
  /\ Resolvable(ro.Attestations)
  /\ heap' = AppendAttestors(BaselineAttestors \o CommandRunAttestors,
                             AddtlAttestors(ro.Attestations))
  /\ attestors' = Refs(heap')
  /\ setterRet' = [k \in 1..Len(heap') |-> Nil]
  /\ setterCalls' = <<>>
  /\ idx' = 1
  /\ pc' = "range"
  /\ trace' = Append(trace, Call("Attestors", TRUE))
  /\ UNCHANGED <<ro, signers, errors, logged, out, deferred, sidx, attestor,
                 runCalls, result, signedBytes, stored, ret>>

BuildAttestorsFail ==
  /\ pc = "buildAttestors"
  /\ ~Resolvable(ro.Attestations)
  /\ heap' = BaselineAttestors \o CommandRunAttestors
  /\ attestors' = Refs(heap')
  /\ Return(Err("UnknownAttestorError", FirstUnknown(ro.Attestations)), out,
            Append(trace, Call("Attestors", FALSE)))
  /\ UNCHANGED <<ro, signers, errors, logged, deferred, idx, sidx, attestor,
                 setterRet, setterCalls, runCalls, result, signedBytes, stored>>

(* ---- lines 95-107: the attestor option binder ---- *)
TypeOf(a) == heap[a].type

\* line 96: the map lookup; a type is a key of the map when setters were bound to it
NumSetters(t) == IF t \in SetterTypes THEN ro.AttestorOptSetters[t] ELSE 0
HasSetters(t) == NumSetters(t) > 0

\* lines 97-99: no setters for this attestor's type
RangeContinue ==
  /\ pc = "range"
  /\ idx <= Len(attestors)
  /\ ~HasSetters(TypeOf(attestors[idx]))
  /\ attestor' = attestors[idx]
  /\ idx' = idx + 1
  /\ UNCHANGED <<pc, ro, signers, errors, logged, out, deferred, heap, attestors,
                 sidx, setterRet, setterCalls, runCalls, result, signedBytes, stored, ret, trace>>

\* lines 95-96, 101: the loop variable takes a copy of the slice element
RangeSetters ==
  /\ pc = "range"
  /\ idx <= Len(attestors)
  /\ HasSetters(TypeOf(attestors[idx]))
  /\ attestor' = attestors[idx]
  /\ sidx' = 1
  /\ pc' = "setters"
  /\ UNCHANGED <<ro, signers, errors, logged, out, deferred, heap, attestors, idx,
                 setterRet, setterCalls, runCalls, result, signedBytes, stored, ret, trace>>

\* what a successful setter may do: reconfigure the instance it was given and return
\* it, or return a reconfigured copy
Reconfigured(inst, k) == [inst EXCEPT !.opts = Append(@, k)]

\* one invocation of setter k for the attestor at slice position pos
SetterCall(pos, k, arg, returned, ok) ==
  [pos |-> pos, k |-> k, arg |-> arg, ret |-> returned, ok |-> ok]

\* mutant: the setter's result is dropped, the next setter gets the slice element
AfterSetterDropsResult(returned) ==
  /\ attestor' = attestors[idx]
  /\ setterRet' = [setterRet EXCEPT ![idx] = returned]
  /\ attestors' = attestors
  /\ IF sidx < ro.AttestorOptSetters[heap[attestors[idx]].type]
     THEN /\ sidx' = sidx + 1
          /\ UNCHANGED <<pc, idx>>
     ELSE /\ idx' = idx + 1
          /\ pc' = "range"
          /\ sidx' = sidx

\* line 102: the result is assigned to the loop variable; the slice is not assigned
AfterSetter(returned) ==
  /\ attestor' = returned
  /\ setterRet' = [setterRet EXCEPT ![idx] = returned]
  /\ attestors' = attestors
  /\ IF sidx < NumSetters(TypeOf(attestors[idx]))
     THEN /\ sidx' = sidx + 1
          /\ UNCHANGED <<pc, idx>>
     ELSE /\ idx' = idx + 1
          /\ pc' = "range"
          /\ sidx' = sidx

SetterInPlace ==
  /\ pc = "setters"
  /\ heap' = [heap EXCEPT ![attestor] = Reconfigured(@, sidx)]
  /\ AfterSetter(attestor)
  /\ trace' = Append(trace, Call("setter", TRUE))
  /\ setterCalls' = Append(setterCalls, SetterCall(idx, sidx, attestor, attestor, TRUE))
  /\ UNCHANGED <<ro, signers, errors, logged, out, deferred, runCalls, result,
                 signedBytes, stored, ret>>

SetterCopy ==
  /\ pc = "setters"
  /\ heap' = Append(heap, Reconfigured(heap[attestor], sidx))
  /\ AfterSetter(Len(heap) + 1)
  /\ trace' = Append(trace, Call("setter", TRUE))
  /\ setterCalls' = Append(setterCalls, SetterCall(idx, sidx, attestor, Len(heap) + 1, TRUE))
  /\ UNCHANGED <<ro, signers, errors, logged, out, deferred, runCalls, result,
                 signedBytes, stored, ret>>

\* lines 103-105: the setter failed and returned the attestor it was given
SetterFail ==
  /\ pc = "setters"
  /\ attestor' = attestor
  /\ Return(Err("AttestorConfigError", TypeOf(attestor)), out,
            Append(trace, Call("setter", FALSE)))
  /\ setterCalls' = Append(setterCalls, SetterCall(idx, sidx, attestor, attestor, FALSE))
  /\ UNCHANGED <<ro, signers, errors, logged, deferred, heap, attestors, idx, sidx,
                 setterRet, runCalls, result, signedBytes, stored>>

\* lines 103-105: the setter failed and returned no attestor; attestor.Type() on
\* the nil interface value panics while the error message is built
SetterFailNil ==
  /\ pc = "setters"
  /\ attestor' = Nil
  /\ Return(Err("panic", "nil pointer dereference"), out,
            Append(trace, Call("setter", FALSE)))
  /\ setterCalls' = Append(setterCalls, SetterCall(idx, sidx, attestor, Nil, FALSE))
  /\ UNCHANGED <<ro, signers, errors, logged, deferred, heap, attestors, idx, sidx,
                 setterRet, runCalls, result, signedBytes, stored>>

(* ---- lines 109-120: the run orchestrator ---- *)
\* line 109, reached when the range is exhausted
DeferClose ==
  /\ pc = "range"
  /\ idx > Len(attestors)
  /\ deferred' = TRUE
  /\ pc' = "run"
  /\ UNCHANGED <<ro, signers, errors, logged, out, heap, attestors, idx, sidx,
                 attestor, setterRet, setterCalls, runCalls, result, signedBytes, stored, ret,
                 trace>>

RunErrors ==
  {"ObservationError", "SigningError"}
    \cup (IF ro.TimestampServers > 0 THEN {"TimestampError"} ELSE {})

Claim(a) == [type |-> heap[a].type, opts |-> heap[a].opts]

SignedEnvelope(as, signer, nts) ==
  [claims |-> [k \in 1..Len(as) |-> Claim(as[k])], signer |-> signer,
   timestamps |-> nts, nonce |-> 1]

WitnessRunOk ==
  /\ pc = "run"
  /\ runCalls' = Append(runCalls, attestors)
  /\ result' = SignedEnvelope(attestors, signers[1], ro.TimestampServers)
  /\ pc' = "marshal"
  /\ trace' = Append(trace, Call("Run", TRUE))
  /\ UNCHANGED <<ro, signers, errors, logged, out, deferred, heap, attestors, idx,
                 sidx, attestor, setterRet, setterCalls, signedBytes, stored, ret>>

\* mutant: the error of witness.Run is not checked
WitnessRunFailIgnored ==
  /\ pc = "run"
  /\ runCalls' = Append(runCalls, attestors)
  /\ pc' = "marshal"
  /\ trace' = Append(trace, Call("Run", FALSE))
  /\ UNCHANGED <<ro, signers, errors, logged, out, deferred, heap, attestors, idx,
                 sidx, attestor, setterRet, setterCalls, result, signedBytes, stored, ret>>

WitnessRunFail ==
  /\ pc = "run"
  /\ runCalls' = Append(runCalls, attestors)
  /\ \E e \in RunErrors : Return(Err(e, ""), out, Append(trace, Call("Run", FALSE)))
  /\ UNCHANGED <<ro, signers, errors, logged, deferred, heap, attestors, idx, sidx,
                 attestor, setterRet, setterCalls, result, signedBytes, stored>>

(* ---- lines 122-129: the result sink ---- *)
\* json.Marshal of the envelope
Marshal(env) ==
  <<"payload">> \o [k \in 1..Len(env.claims) |-> env.claims[k].type]
    \o <<"sig", ToString(env.signer)>>
    \o [k \in 1..env.timestamps |-> "ts"]

\* mutant: an empty envelope is marshalled instead of the one witness.Run returned
MarshalOkEmptyEnvelope ==
  /\ pc = "marshal"
  /\ signedBytes' = Marshal(NoEnvelope)
  /\ pc' = "write"
  /\ trace' = Append(trace, Call("Marshal", TRUE))
  /\ UNCHANGED <<ro, signers, errors, logged, out, deferred, heap, attestors, idx,
                 sidx, attestor, setterRet, setterCalls, runCalls, result, stored,
                 ret>>

MarshalOk ==
  /\ pc = "marshal"
  /\ signedBytes' = Marshal(result)
  /\ pc' = "write"
  /\ trace' = Append(trace, Call("Marshal", TRUE))
  /\ UNCHANGED <<ro, signers, errors, logged, out, deferred, heap, attestors, idx,
                 sidx, attestor, setterRet, setterCalls, runCalls, result, stored, ret>>

\* mutant: the error of json.Marshal is not checked
MarshalFailIgnored ==
  /\ pc = "marshal"
  /\ pc' = "write"
  /\ trace' = Append(trace, Call("Marshal", FALSE))
  /\ UNCHANGED <<ro, signers, errors, logged, out, deferred, heap, attestors, idx,
                 sidx, attestor, setterRet, setterCalls, runCalls, result,
                 signedBytes, stored, ret>>

MarshalFail ==
  /\ pc = "marshal"
  /\ Return(Err("EnvelopeMarshalError", ""), out, Append(trace, Call("Marshal", FALSE)))
  /\ UNCHANGED <<ro, signers, errors, logged, deferred, heap, attestors, idx, sidx,
                 attestor, setterRet, setterCalls, runCalls, result, signedBytes, stored>>

Written(o, bytes) == [o EXCEPT !.content = @ \o bytes, !.writes = @ + 1]

WriteOk ==
  /\ pc = "write"
  /\ out.state = "open"
  /\ out' = Written(out, signedBytes)
  /\ pc' = "publish"
  /\ trace' = Append(trace, Call("Write", TRUE))
  /\ UNCHANGED <<ro, signers, errors, logged, deferred, heap, attestors, idx, sidx,
                 attestor, setterRet, setterCalls, runCalls, result, signedBytes, stored, ret>>

\* mutant: the error of out.Write is not checked
WriteFailIgnored ==
  /\ pc = "write"
  /\ \E n \in 0..(Len(signedBytes) - 1) :
       out' = Written(out, SubSeq(signedBytes, 1, n))
  /\ pc' = "publish"
  /\ trace' = Append(trace, Call("Write", FALSE))
  /\ UNCHANGED <<ro, signers, errors, logged, deferred, heap, attestors, idx, sidx,
                 attestor, setterRet, setterCalls, runCalls, result, signedBytes, stored, ret>>

\* a failed write may have put a proper prefix of the bytes into the destination
WriteFail ==
  /\ pc = "write"
  /\ \E n \in 0..(Len(signedBytes) - 1) :
       Return(Err("SinkWriteError", ""), Written(out, SubSeq(signedBytes, 1, n)),
              Append(trace, Call("Write", FALSE)))
  /\ UNCHANGED <<ro, signers, errors, logged, deferred, heap, attestors, idx, sidx,
                 attestor, setterRet, setterCalls, runCalls, result, signedBytes, stored>>

(* ---- lines 131-140: the publisher ---- *)
\* mutant: the enable flag is not consulted
PublishAlways == TRUE
PublishEnabled == ro.ArchivistaEnable

PublishDisabled ==
  /\ pc = "publish"
  /\ ~PublishEnabled
  /\ Return(Err("nil", ""), out, trace)
  /\ UNCHANGED <<ro, signers, errors, logged, deferred, heap, attestors, idx, sidx,
                 attestor, setterRet, setterCalls, runCalls, result, signedBytes, stored>>

\* mutant: a successful publish is reported as a failure
StoreOkReportsError ==
  /\ pc = "publish"
  /\ PublishEnabled
  /\ stored' = Append(stored, result)
  /\ Return(Err("PublishError", ""), out, Append(trace, Call("Store", TRUE)))
  /\ UNCHANGED <<ro, signers, errors, logged, deferred, heap, attestors, idx, sidx,
                 attestor, setterRet, setterCalls, runCalls, result, signedBytes>>

StoreOk ==
  /\ pc = "publish"
  /\ PublishEnabled
  /\ stored' = Append(stored, result)
  /\ Return(Err("nil", ""), out, Append(trace, Call("Store", TRUE)))
  /\ UNCHANGED <<ro, signers, errors, logged, deferred, heap, attestors, idx, sidx,
                 attestor, setterRet, setterCalls, runCalls, result, signedBytes>>

\* mutant: a failed publish removes the local artifact
StoreFailTruncates ==
  /\ pc = "publish"
  /\ PublishEnabled
  /\ stored' = Append(stored, result)
  /\ Return(Err("PublishError", ""), [out EXCEPT !.content = <<>>],
            Append(trace, Call("Store", FALSE)))
  /\ UNCHANGED <<ro, signers, errors, logged, deferred, heap, attestors, idx, sidx,
                 attestor, setterRet, setterCalls, runCalls, result, signedBytes>>

StoreFail ==
  /\ pc = "publish"
  /\ PublishEnabled
  /\ stored' = Append(stored, result)
  /\ Return(Err("PublishError", ""), out, Append(trace, Call("Store", FALSE)))
  /\ UNCHANGED <<ro, signers, errors, logged, deferred, heap, attestors, idx, sidx,
                 attestor, setterRet, setterCalls, runCalls, result, signedBytes>>

Next ==
  \/ LoadSigners
  \/ FailLoadErrors
  \/ FailTooManySigners
  \/ FailNoSigners
  \/ LoadOutfileOk
  \/ LoadOutfileFail
  \/ BuildAttestorsOk
  \/ BuildAttestorsFail
  \/ RangeContinue
  \/ RangeSetters
  \/ SetterInPlace
  \/ SetterCopy
  \/ SetterFail
  \/ SetterFailNil
  \/ DeferClose
  \/ WitnessRunOk
  \/ WitnessRunFail
  \/ MarshalOk
  \/ MarshalFail
  \/ WriteOk
  \/ WriteFail
  \/ PublishDisabled
  \/ StoreOk
  \/ StoreFail

Spec == Init /\ [][Next]_vars

(***************************************************************************)
(* Properties of runRun.                                                   *)
(***************************************************************************)
Done == pc = "done"
Called(op) == \E k \in 1..Len(trace) : trace[k].op = op
Succeeded(op) == \E k \in 1..Len(trace) : trace[k] = Call(op, TRUE)
Failed(op) == \E k \in 1..Len(trace) : trace[k] = Call(op, FALSE)
Before(opA, opB) ==
  \A k \in 1..Len(trace) :
    trace[k].op = opB => \E m \in 1..(k - 1) : trace[m] = Call(opA, TRUE)
ReturnedNil == Done /\ ret.kind = "nil"
ReturnedError == Done /\ ret.kind \notin {"running", "nil", "panic"}
Opened == Succeeded("loadOutfile")
TypesOf(as) == [k \in 1..Len(as) |-> heap[as[k]].type]

\* C1: on every exit of runRun taken after loadOutfile succeeded, the output
\* destination has been closed exactly once; it is never closed twice.
C1_ClosedOnceOnEveryExit ==
  /\ out.closes <= 1
  /\ (Done /\ Opened) => (out.closes = 1 /\ out.state = "closed")

\* C2: for every attestor whose type has setters bound, the instance handed to
\* witness.Run at its list position is the instance the last setter returned.
C2_RunGetsLastSetterResult ==
  \A c \in 1..Len(runCalls) : \A p \in 1..Len(runCalls[c]) :
    HasSetters(TypeOf(runCalls[c][p])) => runCalls[c][p] = setterRet[p]

\* C3 as stated: the list passed to witness.Run is [material, product] when there
\* are no arguments, else [material, product, command-run, ...pluggable].
C3_MaterialFirst ==
  \A c \in 1..Len(runCalls) :
    TypesOf(runCalls[c]) =
      IF ro.args = <<>>
      THEN <<MaterialType, ProductType>>
      ELSE <<MaterialType, ProductType, CommandRunType>> \o ro.Attestations

\* C3 amended: the list passed to witness.Run is [product, material, ...pluggable
\* in configuration order] when there are no arguments, else [product, material,
\* command-run, ...pluggable in configuration order].
C3_ProductFirst ==
  \A c \in 1..Len(runCalls) :
    TypesOf(runCalls[c]) =
      IF ro.args = <<>>
      THEN <<ProductType, MaterialType>> \o ro.Attestations
      ELSE <<ProductType, MaterialType, CommandRunType>> \o ro.Attestations

C3_Witness ==
  /\ Len(runCalls) = 1
  /\ ro.args # <<>>
  /\ ro.Attestations = <<"environment", "git">>

\* C4: when witness.Run fails, runRun returns an error, nothing is marshalled,
\* nothing is written and the store is not called; the destination is written
\* only after witness.Run returned a result without error.
C4_RunFailureStopsEverything ==
  /\ Failed("Run") =>
       /\ ReturnedError
       /\ ~Called("Marshal") /\ signedBytes = <<>>
       /\ ~Called("Write") /\ out.writes = 0 /\ out.content = <<>>
       /\ ~Called("Store") /\ stored = <<>>
  /\ Before("Run", "Write")
  /\ out.writes > 0 => (Succeeded("Run") /\ result # NoEnvelope)

C4_Witness ==
  /\ Failed("Run")
  /\ ret.kind = "TimestampError"
  /\ Done

\* C5 as stated: with zero signers runRun fails with NoSignerError, with two or
\* more with AmbiguousSignerError, and no attestor is constructed, configured or
\* executed.
C5_BadSignerCountNamed ==
  (Called("loadSigners") /\ Len(signers) # 1) =>
    /\ heap = <<>> /\ ~Called("Attestors") /\ ~Called("setter") /\ runCalls = <<>>
    /\ Done =>
         ret.kind = IF Len(signers) = 0 THEN "NoSignerError"
                    ELSE "AmbiguousSignerError"

\* C5 amended: with zero or with two or more signers runRun fails, with
\* SignerLoadError when load errors were reported too and otherwise with
\* NoSignerError / AmbiguousSignerError respectively, and no attestor is
\* constructed, configured or executed.
C5_BadSignerCountFails ==
  (Called("loadSigners") /\ Len(signers) # 1) =>
    /\ heap = <<>> /\ ~Called("Attestors") /\ ~Called("setter") /\ runCalls = <<>>
    /\ pc \in {"checkSigners", "done"}
    /\ Done =>
         ret.kind = IF Len(errors) > 0 THEN "SignerLoadError"
                    ELSE IF Len(signers) = 0 THEN "NoSignerError"
                    ELSE "AmbiguousSignerError"

C5_Witness ==
  /\ Done
  /\ Len(signers) = 2
  /\ ret.kind = "AmbiguousSignerError"

\* C6: when runRun aborts in the signer resolver, loadOutfile has not been
\* called and the output destination is untouched.
C6_SignerAbortLeavesOutUntouched ==
  (Done /\ ret.kind \in {"SignerLoadError", "AmbiguousSignerError", "NoSignerError"})
    => (~Called("loadOutfile") /\ out = NoOut)

C6_Witness ==
  /\ Done
  /\ ret.kind = "SignerLoadError"
  /\ out = NoOut

\* C7: runRun returns nil only if the whole marshalled envelope was written to
\* the destination without error and, with publishing enabled, the store call
\* succeeded.
C7_NilOnlyAfterWriteAndPublish ==
  ReturnedNil =>
    /\ Succeeded("Run") /\ Succeeded("Marshal") /\ Succeeded("Write")
    /\ ~Failed("Write")
    /\ signedBytes = Marshal(result)
    /\ out.content = signedBytes
    /\ ro.ArchivistaEnable => (Succeeded("Store") /\ ~Failed("Store"))

C7_Witness ==
  /\ ReturnedNil
  /\ ro.ArchivistaEnable
  /\ stored = <<result>>

\* C8: the store is called only with publishing enabled and only after the
\* envelope was marshalled and written without error; with publishing disabled
\* the store is never called and the publish step adds no error.
C8_StoreOnlyWhenEnabledAfterWrite ==
  /\ Called("Store") =>
       /\ ro.ArchivistaEnable
       /\ ~Failed("Marshal") /\ ~Failed("Write")
  /\ Before("Marshal", "Store")
  /\ Before("Write", "Store")
  /\ Len(stored) = Cardinality({k \in 1..Len(trace) : trace[k].op = "Store"})
  /\ ~ro.ArchivistaEnable =>
       /\ stored = <<>>
       /\ (Done /\ Succeeded("Write")) => ReturnedNil

C8_Witness ==
  /\ Done
  /\ ~ro.ArchivistaEnable
  /\ Succeeded("Write")

\* C9: when the store call fails after the write succeeded, runRun reports
\* PublishError and the destination holds exactly what was written, which is what
\* the run writes with publishing disabled.
WrittenWithoutPublishing ==
  Marshal(SignedEnvelope(attestors, signers[1], ro.TimestampServers))

C9_PublishFailureKeepsArtifact ==
  /\ Failed("Store") =>
       /\ Done /\ ret.kind = "PublishError"
       /\ Succeeded("Write")
       /\ out.writes = 1
       /\ out.content = signedBytes
       /\ out.content = WrittenWithoutPublishing
  /\ (Done /\ Succeeded("Write") /\ ~ro.ArchivistaEnable) =>
       out.content = WrittenWithoutPublishing

C9_Witness ==
  /\ Failed("Store")
  /\ ret.kind = "PublishError"
  /\ out.content # <<>>

\* C10: when a pluggable attestor name does not resolve or an option setter
\* fails, runRun returns an error, witness.Run is never invoked, nothing is
\* written and nothing is published.
C10_BuildFailureReturnsError ==
  (Failed("Attestors") \/ Failed("setter")) =>
    /\ ReturnedError
    /\ runCalls = <<>> /\ ~Called("Run")
    /\ out.writes = 0 /\ out.content = <<>>
    /\ stored = <<>>

\* C11: when loadSigners reports at least one load error, runRun fails with
\* SignerLoadError whatever the number of signers loaded, and every load error
\* has been logged, in order, when it returns.
LoggedLoadErrors ==
  [k \in 1..Len(errors) |-> Err("load", ToString(errors[k]))]

C11_AllLoadErrorsReported ==
  (Called("loadSigners") /\ Len(errors) > 0) =>
    /\ pc \in {"checkSigners", "done"}
    /\ ~Called("loadOutfile")
    /\ Done => (ret.kind = "SignerLoadError" /\ logged = LoggedLoadErrors)

C11_Witness ==
  /\ Done
  /\ Len(errors) = 2
  /\ Len(signers) = 1
  /\ Len(logged) = 2

\* C12: every failure of an operation runRun invokes (signer loading, opening,
\* resolution, a setter, witness.Run, marshalling, the write, the close, the
\* store) makes runRun end with a failure status: it does not return nil.
AnyFailure ==
  \/ Len(errors) > 0
  \/ \E k \in 1..Len(trace) : ~trace[k].ok

C12_NoErrorSwallowed ==
  (Done /\ AnyFailure) => ~ReturnedNil

\* C13 as stated: with exactly one loadable signer runRun returns success and
\* exactly one Run Result is produced.
C13_OneSignerSucceeds ==
  (Done /\ Len(signers) = 1) =>
    (ReturnedNil /\ Len(runCalls) = 1 /\ result # NoEnvelope)

\* C13 amended: with exactly one loadable signer, no load error and every
\* operation from opening the destination to the publish step succeeding, runRun
\* returns success and exactly one Run Result is produced.
StagesSucceeded ==
  /\ Len(errors) = 0
  /\ \A k \in 1..Len(trace) : trace[k].op # "Close" => trace[k].ok

C13_OneSignerAndNoFailureSucceeds ==
  (Done /\ Len(signers) = 1 /\ StagesSucceeded) =>
    /\ ReturnedNil
    /\ Len(runCalls) = 1
    /\ result = SignedEnvelope(runCalls[1], signers[1], ro.TimestampServers)
    /\ Succeeded("Write")
    /\ ro.ArchivistaEnable => stored = <<result>>

C13_Witness ==
  /\ ReturnedNil
  /\ Len(signers) = 1
  /\ Len(runCalls) = 1
  /\ ro.ArchivistaEnable
  /\ Len(ro.Attestations) = 2

\* C14: the operations of one invocation happen at most once each and in the
\* order load signers, open, resolve, setters, witness.Run, marshal, write,
\* store, close; after a failure of any of them but close only the close may
\* follow; a failed open leaves no attestor constructed; the destination is
\* written at most once and never after it was closed.
\* (The order is stated on adjacent calls of the trace; the stage numbers make it
\* hold of every pair.)
Stage(op) ==
  CASE op = "loadSigners" -> 1
    [] op = "loadOutfile" -> 2
    [] op = "Attestors" -> 3
    [] op = "setter" -> 4
    [] op = "Run" -> 5
    [] op = "Marshal" -> 6
    [] op = "Write" -> 7
    [] op = "Store" -> 8
    [] op = "Close" -> 9

C14_SinglePassInOrder ==
  /\ \A a \in 1..(Len(trace) - 1) :
       LET this == trace[a]
           next == trace[a + 1]
       IN /\ Stage(this.op) <= Stage(next.op)
          /\ Stage(this.op) = Stage(next.op) => this.op = "setter"
          /\ (~this.ok /\ this.op # "Close") => next.op = "Close"
  /\ \A a \in 1..(Len(setterCalls) - 1) :
       \/ setterCalls[a].pos < setterCalls[a + 1].pos
       \/ /\ setterCalls[a].pos = setterCalls[a + 1].pos
          /\ setterCalls[a].k < setterCalls[a + 1].k
  /\ Len(setterCalls) = Cardinality({k \in 1..Len(trace) : trace[k].op = "setter"})
  /\ (Called("loadSigners") /\ Len(errors) > 0 /\ Done) => Len(trace) = 1
  /\ Failed("loadOutfile") => (heap = <<>> /\ attestors = <<>> /\ runCalls = <<>>)
  /\ Len(runCalls) <= 1
  /\ out.writes <= 1
  /\ out.closes <= 1
  /\ out.state = "closed" => (Done /\ trace[Len(trace)].op = "Close")

C14_Witness ==
  /\ Done
  /\ Len(trace) = 12
  /\ Len(setterCalls) = 4
  /\ trace[11].op = "Store"
  /\ trace[12].op = "Close"

\* C15: the list given to witness.Run holds one product and one material
\* attestor in its first two positions, then one command-run attestor, built with
\* the arguments and the tracing flag, exactly when there are arguments, then the
\* resolved pluggable attestors in configuration order.
NumCommandRun(l) == Cardinality({k \in 1..Len(l) : TypeOf(l[k]) = CommandRunType})
Pluggable(l) == SubSeq(l, IF ro.args = <<>> THEN 3 ELSE 4, Len(l))

C15_ListFromConfiguration ==
  \A c \in 1..Len(runCalls) :
    LET l == runCalls[c] IN
      /\ Len(l) = 2 + (IF ro.args = <<>> THEN 0 ELSE 1) + Len(ro.Attestations)
      /\ {TypeOf(l[1]), TypeOf(l[2])} = {ProductType, MaterialType}
      /\ NumCommandRun(l) = IF ro.args = <<>> THEN 0 ELSE 1
      /\ ro.args # <<>> =>
           /\ TypeOf(l[3]) = CommandRunType
           /\ heap[l[3]].args = ro.args
           /\ heap[l[3]].tracing = ro.Tracing
      /\ TypesOf(Pluggable(l)) = ro.Attestations
      /\ \A a, b \in 1..Len(l) : a # b => l[a] # l[b]

C15_Witness ==
  /\ Len(runCalls) = 1
  /\ ro.args # <<>>
  /\ ro.Tracing
  /\ ro.Attestations = <<"git", "environment">>

\* C16: the setters bound to an attestor's type are invoked in registration
\* order, the first on the attestor of the list and each next one on what the
\* previous one returned; no setter is invoked for a type without setters; all
\* setter invocations have succeeded before witness.Run is invoked.
CallsAt(p) == {n \in 1..Len(setterCalls) : setterCalls[n].pos = p}

C16_SettersChainedBeforeRun ==
  /\ \A n \in 1..Len(setterCalls) :
       LET c == setterCalls[n] IN
         /\ c.pos \in 1..Len(attestors)
         /\ c.k \in 1..NumSetters(TypeOf(attestors[c.pos]))
         /\ c.k = 1 =>
              /\ c.arg = attestors[c.pos]
              /\ n > 1 => setterCalls[n - 1].pos < c.pos
         /\ c.k > 1 =>
              /\ setterCalls[n - 1].pos = c.pos
              /\ setterCalls[n - 1].k = c.k - 1
              /\ setterCalls[n - 1].ok
              /\ c.arg = setterCalls[n - 1].ret
  /\ Called("Run") =>
       /\ \A n \in 1..Len(setterCalls) : setterCalls[n].ok
       /\ \A p \in 1..Len(attestors) :
            Cardinality(CallsAt(p)) = NumSetters(TypeOf(attestors[p]))
       /\ Before("Attestors", "Run")
       /\ trace[3 + Len(setterCalls) + 1].op = "Run"
       /\ \A a \in 4..(3 + Len(setterCalls)) : trace[a] = Call("setter", TRUE)

C16_Witness ==
  /\ Called("Run")
  /\ Len(setterCalls) = 4
  /\ setterCalls[2].arg # setterCalls[1].arg
  /\ \E p \in 1..Len(attestors) : CallsAt(p) = {}

\* C17: whenever a setter fails, runRun returns an AttestorConfigError naming
\* the type of the attestor the setter was applied to, whatever attestor value
\* the failing setter returned, nil included.
C17_SetterFailureNamesType ==
  \A n \in 1..Len(setterCalls) :
    ~setterCalls[n].ok =>
      /\ Done
      /\ ret = Err("AttestorConfigError", TypeOf(attestors[setterCalls[n].pos]))

\* C18: what is written to the destination is the serialization of the envelope
\* the one witness.Run call returned, and the envelope given to the store is that
\* same envelope.
IsPrefix(s, t) == Len(s) <= Len(t) /\ s = SubSeq(t, 1, Len(s))

C18_OnlyTheRunEnvelope ==
  /\ Len(runCalls) <= 1
  /\ Len(stored) <= 1
  /\ (Called("Write") \/ stored # <<>>) =>
       /\ Succeeded("Run")
       /\ result = SignedEnvelope(runCalls[1], signers[1], ro.TimestampServers)
       /\ IsPrefix(out.content, Marshal(result))
       /\ Succeeded("Write") => out.content = Marshal(result)
       /\ \A k \in 1..Len(stored) : stored[k] = result

C18_Witness ==
  /\ Done
  /\ Succeeded("Write")
  /\ stored = <<result>>
  /\ Len(result.claims) = 5
====
